---------------------------- MODULE Spec2Model ----------------------------
(***************************************************************************)
(* Model of the uEye XS vision tester: the image routines of               *)
(* image_processor.py and the application state machine of app.py (UI      *)
(* thread, capture thread, calibration threads, reference files on disk),  *)
(* and the capture thread of camera_handler.py from its start.             *)
(*                                                                         *)
(* Images are records [h, w, ch, px]: numpy shape (h, w) for ch = 1 and    *)
(* (h, w, 3) for ch = 3; px maps <<row, column>> (0-based) to an 8-bit     *)
(* value (ch = 1) or a <<b, g, r>> triple (ch = 3).  Ratios (Python floats *)
(* obtained as a quotient of two small integers) are kept as reduced       *)
(* fractions <<n, d>>.  A raised Python exception is the record Raised.    *)
(***************************************************************************)
EXTENDS Integers, Sequences, FiniteSets, TLC

VARIABLES
    roi_start,        \* app.roi_start: None or [x, y]
    roi_end,          \* app.roi_end: None or [x, y]
    roi_enabled,      \* app.roi_enabled
    testing,          \* app.testing
    last_frame,       \* app.last_frame: None or an image
    result_text,      \* status label: [text, color]
    test_result_text, \* test result label: [text, color]
    files,            \* ./reference/ref_i.png: "absent", "corrupt" or [img, by]
    cap,              \* capture thread inside process_and_display_frame
    cals,             \* calibration threads, in order of creation
    afterq,           \* callbacks posted with self.after(0, ...), FIFO
    pf_in,            \* arguments of the image routine under study
    pf_out,           \* its result, None before the call
    cam,              \* CameraHandler: the capture thread in camera_handler.py
    pending,          \* history: the latest accepted Start Test request, or the reset
    ignored           \* history: a mouse event arrived while the ROI was locked

vars == <<roi_start, roi_end, roi_enabled, testing, last_frame, result_text,
          test_result_text, files, cap, cals, afterq, pf_in, pf_out, cam, pending, ignored>>

None == [none |-> TRUE]
Raised == [exc |-> "cv2.error"]
IsRaised(r) == "exc" \in DOMAIN r

Min(a, b) == IF a < b THEN a ELSE b
Max(a, b) == IF a > b THEN a ELSE b
Abs(a) == IF a < 0 THEN -a ELSE a

-----------------------------------------------------------------------------
(* numpy arrays *)

MkImg(h, w, ch, f(_, _)) ==
    [h |-> h, w |-> w, ch |-> ch,
     px |-> [p \in (0..(h - 1)) \X (0..(w - 1)) |-> f(p[1], p[2])]]

Shape(img) == IF img.ch = 3 THEN <<img.h, img.w, 3>> ELSE <<img.h, img.w>>
Size(img) == img.h * img.w * img.ch

\* img[y0:y1, x0:x1] for non-negative bounds: numpy clips a slice to the array
Slice(img, y0, y1, x0, x1) ==
    LET ya == Min(y0, img.h)
        yb == Max(ya, Min(y1, img.h))
        xa == Min(x0, img.w)
        xb == Max(xa, Min(x1, img.w))
    IN  MkImg(yb - ya, xb - xa, img.ch, LAMBDA r, c : img.px[<<r + ya, c + xa>>])

-----------------------------------------------------------------------------
(* fractions *)

RECURSIVE Gcd(_, _)
Gcd(a, b) == IF b = 0 THEN a ELSE Gcd(b, a % b)

Frac(n, d) == LET g == Gcd(n, d) IN <<n \div g, d \div g>>
FracGT(p, q) == p[1] * q[2] > q[1] * p[2]
\* (variant: the latest value instead of the larger one)
FracMax_Latest(p, q) == q

\* Python max(a, b): b only when b > a
FracMax(p, q) == IF FracGT(q, p) THEN q ELSE p

-----------------------------------------------------------------------------
(* arithmetic on naturals beyond 32 bits: little-endian base-10000 digits *)

\* F applied to the value of x (TLC would otherwise evaluate the expression
\* given for x again at every use)
With(x, F(_)) == CHOOSE r \in {F(v) : v \in {x}} : TRUE

RECURSIVE BigOf(_)
BigOf(n) == IF n = 0 THEN <<>> ELSE <<n % 10000>> \o BigOf(n \div 10000)

RECURSIVE SumVals(_, _)
SumVals(f, V) ==
    IF V = {} THEN 0
    ELSE LET v == CHOOSE u \in V : TRUE
         IN  v * Cardinality({k \in DOMAIN f : f[k] = v}) + SumVals(f, V \ {v})

\* the sum of the values of a function with a finite domain
Sum(f) == With(f, LAMBDA g : SumVals(g, {g[k] : k \in DOMAIN g}))

RECURSIVE Carry(_, _, _)
Carry(coefs, k, c) ==
    IF k > Len(coefs)
    THEN BigOf(c)
    ELSE <<(coefs[k] + c) % 10000>> \o Carry(coefs, k + 1, (coefs[k] + c) \div 10000)

BigMul(x, y) ==
    IF x = <<>> \/ y = <<>> THEN <<>>
    ELSE LET coef(k) ==
                 LET lo == Max(1, k + 1 - Len(y))
                     hi == Min(k, Len(x))
                 IN  Sum([j \in lo..hi |-> x[j] * y[k + 1 - j]])
         IN  Carry([k \in 1..(Len(x) + Len(y) - 1) |-> coef(k)], 1, 0)

RECURSIVE BigGTFrom(_, _, _)
BigGTFrom(x, y, k) ==
    IF k = 0 THEN FALSE
    ELSE IF x[k] # y[k] THEN x[k] > y[k]
    ELSE BigGTFrom(x, y, k - 1)

\* digit sequences produced by BigOf, BigMul have no leading zero digit
BigGT(x, y) ==
    IF Len(x) # Len(y) THEN Len(x) > Len(y) ELSE BigGTFrom(x, y, Len(x))

-----------------------------------------------------------------------------
(* OpenCV routines used by image_processor.py *)

\* cv2.cvtColor(img, COLOR_BGR2GRAY): 8-bit fixed-point luma; asserts !src.empty()
cvtColor(img) ==
    IF Size(img) = 0 THEN Raised
    ELSE [h |-> img.h, w |-> img.w, ch |-> 1,
          px |-> [p \in DOMAIN img.px |->
                     (img.px[p][1] * 1868 + img.px[p][2] * 9617
                        + img.px[p][3] * 4899 + 8192) \div 16384]]

\* The lookup table of clahe.apply(gray), taken with one tile and no clipping:
\* each value goes to the rounded 255 * (pixels not above it) / (pixels)
Lut(gray) ==
    [v \in {gray.px[p] : p \in DOMAIN gray.px} |->
        LET cdf == Cardinality({p \in DOMAIN gray.px : gray.px[p] <= v})
        IN  (2 * 255 * cdf + gray.h * gray.w) \div (2 * gray.h * gray.w)]

\* clahe.apply(gray); empty input is rejected
clahe_apply(gray) ==
    IF Size(gray) = 0 THEN Raised
    ELSE With(Lut(gray),
              LAMBDA lut : [h |-> gray.h, w |-> gray.w, ch |-> 1,
                            px |-> [p \in DOMAIN gray.px |-> lut[gray.px[p]]]])

\* One entry of cv2.matchTemplate(I, T, TM_CCOEFF_NORMED) at offset <<oy, ox>>,
\* up to the positive factor 1/sqrt(variance of T) common to all offsets:
\* the value is a / sqrt(b), or 0 when the window or the template is flat.
Score(I, T, oy, ox) ==
    LET n   == T.h * T.w
        P   == DOMAIN T.px
        sT  == Sum([p \in P |-> T.px[p]])
        sI  == Sum([p \in P |-> I.px[<<oy + p[1], ox + p[2]>>]])
        sTI == Sum([p \in P |-> T.px[p] * I.px[<<oy + p[1], ox + p[2]>>]])
        sII == Sum([p \in P |-> I.px[<<oy + p[1], ox + p[2]>>]
                                    * I.px[<<oy + p[1], ox + p[2]>>]])
        sTT == Sum([p \in P |-> T.px[p] * T.px[p]])
    IN  With(<<n * sTI - sT * sI, n * sII - sI * sI, n * sTT - sT * sT>>,
             LAMBDA abv : IF abv[2] = 0 \/ abv[3] = 0 THEN [a |-> 0, b |-> 1]
                          ELSE [a |-> abv[1], b |-> abv[2]])

\* s1.a / sqrt(s1.b) > s2.a / sqrt(s2.b)
ScoreGT(s1, s2) ==
    IF s1.a > 0 /\ s2.a <= 0 THEN TRUE
    ELSE IF s1.a <= 0 /\ s2.a > 0 THEN FALSE
    ELSE With(<<BigMul(BigMul(BigOf(Abs(s1.a)), BigOf(Abs(s1.a))), BigOf(s2.b)),
                BigMul(BigMul(BigOf(Abs(s2.a)), BigOf(Abs(s2.a))), BigOf(s1.b))>>,
              LAMBDA m : IF s1.a > 0 THEN BigGT(m[1], m[2]) ELSE BigGT(m[2], m[1]))

\* the correlation map of the array T slid over the array I
Correlate(I, T) ==
    [h |-> I.h - T.h + 1, w |-> I.w - T.w + 1,
     res |-> [p \in (0..(I.h - T.h)) \X (0..(I.w - T.w)) |-> Score(I, T, p[1], p[2])]]

\* (variant: the template has to be smaller than the image)
matchTemplate_StrictFit(image, templ) ==
    IF Size(image) = 0 \/ Size(templ) = 0 THEN Raised
    ELSE IF image.h <= templ.h \/ image.w <= templ.w THEN Raised
    ELSE Correlate(image, templ)

\* cv2.matchTemplate(image, templ, TM_CCOEFF_NORMED): the smaller array is slid
\* over the larger one; OpenCV asserts that one fits inside the other and
\* rejects empty input.  res[<<y, x>>] for 0 <= y < h, 0 <= x < w.
matchTemplate(image, templ) ==
    IF Size(image) = 0 \/ Size(templ) = 0 THEN Raised
    ELSE IF image.h < templ.h \/ image.w < templ.w
    THEN IF image.h <= templ.h /\ image.w <= templ.w
         THEN Correlate(templ, image)
         ELSE Raised
    ELSE Correlate(image, templ)

RECURSIVE ArgMax(_, _, _)
\* index of the first maximum among the entries of r in row-major order, given
\* the best index among the entries before k
ArgMax(r, k, best) ==
    IF k = r.h * r.w THEN best
    ELSE ArgMax(r, k + 1,
                IF ScoreGT(r.res[<<k \div r.w, k % r.w>>],
                           r.res[<<best \div r.w, best % r.w>>])
                THEN k ELSE best)

\* (variant: the last of several equal maxima)
minMaxLoc_Last(r) ==
    LET N == 0..(r.h * r.w - 1)
        at(k) == r.res[<<k \div r.w, k % r.w>>]
        k == CHOOSE k \in N : /\ \A j \in N : ~ScoreGT(at(j), at(k))
                              /\ \A j \in N : j > k => ScoreGT(at(k), at(j))
    IN  <<k % r.w, k \div r.w>>

\* max_loc of cv2.minMaxLoc(res), as <<x, y>>
minMaxLoc(r) == With(ArgMax(r, 1, 0), LAMBDA k : <<k % r.w, k \div r.w>>)

-----------------------------------------------------------------------------
(* image_processor.py: preprocess_with_clahe, align_images *)

preprocess_with_clahe(img) ==
    With(IF img.ch = 3 THEN cvtColor(img) ELSE img,
         LAMBDA gray : IF IsRaised(gray) THEN Raised ELSE clahe_apply(gray))

\* lines 44-60, for grayscale template and image
AlignGray(template, image) ==
    With(matchTemplate(image, template),
         LAMBDA res :
             IF IsRaised(res) THEN Raised
             ELSE With(minMaxLoc(res),
                       LAMBDA max_loc :
                           LET x == max_loc[1]
                               y == max_loc[2]
                               h == template.h
                               w == template.w
                           IN  With(Slice(image, y, y + h, x, x + w),
                                    LAMBDA aligned :
                                        IF Shape(aligned) # Shape(template)
                                        THEN Slice(image, 0, h, 0, w)
                                        ELSE aligned)))

align_images(template0, image0) ==
    With(<<IF template0.ch = 3 THEN cvtColor(template0) ELSE template0,
           IF image0.ch = 3 THEN cvtColor(image0) ELSE image0>>,
         LAMBDA g : IF IsRaised(g[1]) \/ IsRaised(g[2]) THEN Raised
                    ELSE AlignGray(g[1], g[2]))

\* vision_processor.py lines 15-24: VisionProcessor.align_images, the same
\* steps without the conversion to grayscale
vp_align_images(template, image) ==
    With(matchTemplate(image, template),
         LAMBDA res :
             IF IsRaised(res) THEN Raised
             ELSE With(minMaxLoc(res),
                       LAMBDA max_loc :
                           With(Slice(image, max_loc[2], max_loc[2] + template.h,
                                      max_loc[1], max_loc[1] + template.w),
                                LAMBDA aligned :
                                    IF Shape(aligned) # Shape(template)
                                    THEN Slice(image, 0, template.h, 0, template.w)
                                    ELSE aligned)))

-----------------------------------------------------------------------------
(* image_processor.py: pixel_diff_change *)

threshold == 25
change_ratio_threshold == <<1, 50>>   \* 0.02

\* (variant: THRESH_BINARY_INV, the differences up to the threshold count)
CountDiff_Inverse(ref, live, thr) ==
    Cardinality({p \in DOMAIN ref.px : Abs(ref.px[p] - live.px[p]) <= thr})

\* (variant: a difference equal to the threshold counts)
CountDiff_AtLeast(ref, live, thr) ==
    Cardinality({p \in DOMAIN ref.px : Abs(ref.px[p] - live.px[p]) >= thr})

\* cv2.absdiff, cv2.threshold(.., THRESH_BINARY), cv2.countNonZero
CountDiff(ref, live, thr) ==
    Cardinality({p \in DOMAIN ref.px : Abs(ref.px[p] - live.px[p]) > thr})

\* (variant: a ratio equal to the ratio threshold is a change)
DiffRatio_AtLeast(ref, live, thr, crt) ==
    With(<<CountDiff(ref, live, thr), ref.h * ref.w>>,
         LAMBDA n : IF n[2] = 0
                    THEN [changed |-> FALSE, ratio |-> <<0, 1>>]
                    ELSE [changed |-> ~FracGT(crt, Frac(n[1], n[2])),
                          ratio |-> Frac(n[1], n[2])])

\* lines 82-98, for arrays of one shape
DiffRatio(ref, live, thr, crt) ==
    With(<<CountDiff(ref, live, thr), ref.h * ref.w>>,
         LAMBDA n : IF n[2] = 0
                    THEN [changed |-> FALSE, ratio |-> <<0, 1>>]
                    ELSE [changed |-> FracGT(Frac(n[1], n[2]), crt),
                          ratio |-> Frac(n[1], n[2])])

\* (variant: the reference is cropped at its bottom-right corner)
pixel_diff_change_CropEnd(ref, live, thr, crt) ==
    IF Shape(ref) # Shape(live)
    THEN With(<<Min(ref.h, live.h), Min(ref.w, live.w)>>,
              LAMBDA m :
                  With(<<Slice(ref, ref.h - m[1], ref.h, ref.w - m[2], ref.w),
                         Slice(live, 0, m[1], 0, m[2])>>,
                       LAMBDA c : IF Size(c[1]) = 0 \/ Size(c[2]) = 0
                                  THEN [changed |-> FALSE, ratio |-> <<0, 1>>]
                                  ELSE DiffRatio(c[1], c[2], thr, crt)))
    ELSE DiffRatio(ref, live, thr, crt)

pixel_diff_change(ref, live, thr, crt) ==
    IF Shape(ref) # Shape(live)
    THEN With(<<Min(ref.h, live.h), Min(ref.w, live.w)>>,
              LAMBDA m :
                  With(<<Slice(ref, 0, m[1], 0, m[2]), Slice(live, 0, m[1], 0, m[2])>>,
                       LAMBDA c : IF Size(c[1]) = 0 \/ Size(c[2]) = 0
                                  THEN [changed |-> FALSE, ratio |-> <<0, 1>>]
                                  ELSE DiffRatio(c[1], c[2], thr, crt)))
    ELSE DiffRatio(ref, live, thr, crt)

-----------------------------------------------------------------------------
(* app.py: the application *)

FrameW == 3           \* camera_handler.width, scaled down
FrameH == 2           \* camera_handler.height, scaled down
num_ref_images == 3   \* app.num_ref_images, scaled down
MaxCal == 1           \* calibration threads started in one run
MaxAfter == 1         \* callbacks pending in the Tk event queue

\* A BGR frame of h rows and w columns showing scene k: uniform grey with k
\* dark pixels at the start of row 0
SceneImg(h, w, k) ==
    MkImg(h, w, 3,
          LAMBDA r, c : IF r = 0 /\ c < k THEN <<0, 0, 0>> ELSE <<100, 100, 100>>)

\* what the camera delivers
Scenes == {0, 1}
Frames == [k \in Scenes |-> SceneImg(FrameH, FrameW, k)]

\* mouse positions reported by the <Button-1>, <B1-Motion>, <ButtonRelease-1>
\* events
Pt(x, y) == [x |-> x, y |-> y]
RoiPoints == {Pt(0, 0), Pt(FrameW \div 2, FrameH)}

Label(text, color) == [text |-> text, color |-> color]
NoResult == [verdict |-> "", diff |-> 0]

\* f"{ratio:.2%}": the ratio in hundredths of a percent, rounded half to even
FormatPct(ratio) ==
    LET q == (ratio[1] * 10000) \div ratio[2]
        r == (ratio[1] * 10000) % ratio[2]
    IN  IF 2 * r > ratio[2] THEN q + 1
        ELSE IF 2 * r = ratio[2] THEN q + (q % 2)
        ELSE q

Absent == [kind |-> "absent"]
Corrupt == [kind |-> "corrupt"]
Png(img, by) == [kind |-> "png", img |-> img, by |-> by]

\* os.path.exists(path)
exists(f) == f.kind # "absent"

\* cv2.imread(path): None for a missing or undecodable file, else 3 channels
imread(f) ==
    IF f.kind # "png" THEN None
    ELSE IF f.img.ch = 3 THEN f.img
    ELSE MkImg(f.img.h, f.img.w, 3,
               LAMBDA r, c : LET v == f.img.px[<<r, c>>] IN <<v, v, v>>)

get_roi_box ==
    IF roi_start # None /\ roi_end # None
    THEN [x |-> Min(roi_start.x, roi_end.x), y |-> Min(roi_start.y, roi_end.y),
          w |-> Abs(roi_end.x - roi_start.x), h |-> Abs(roi_end.y - roi_start.y)]
    ELSE None

\* frame[y:y+h, x:x+w]
Crop(frame, box) == Slice(frame, box.y, box.y + box.h, box.x, box.x + box.w)

CapIdle == [pc |-> "idle"]
CapCrashed == [pc |-> "crashed"]

\* self.after(0, lambda: fn(label)); the Tk event queue takes another callback
After(fn, label) == [fn |-> fn, label |-> label]
CanPost == Len(afterq) < MaxAfter

update_status(text, color) == result_text' = Label(text, color)
update_test_result(text, color) == test_result_text' = Label(text, color)

(* ---- UI thread: button and mouse handlers ---- *)

enable_roi_selection ==
    /\ update_status("Select ROI by dragging mouse over the video.", "yellow")
    /\ update_test_result(NoResult, "white")
    /\ roi_enabled' = FALSE
    /\ roi_start' = None
    /\ roi_end' = None
    /\ ignored' = FALSE
    /\ UNCHANGED <<testing, last_frame, files, cap, cals, afterq, pf_in, pf_out, cam, pending>>

reset_app ==
    /\ roi_start' = None
    /\ roi_end' = None
    /\ roi_enabled' = FALSE
    /\ testing' = FALSE
    /\ update_status("Reset done. Please select ROI again.", "white")
    /\ update_test_result(NoResult, "white")
    /\ pending' = "reset"
    /\ ignored' = FALSE
    /\ UNCHANGED <<last_frame, files, cap, cals, afterq, pf_in, pf_out, cam>>

mark_roi_start(event) ==
    /\ roi_start' = IF ~roi_enabled THEN event ELSE roi_start
    /\ ignored' = (ignored \/ roi_enabled)
    /\ UNCHANGED <<roi_end, roi_enabled, testing, last_frame, result_text,
                   test_result_text, files, cap, cals, afterq, pf_in, pf_out, cam, pending>>

\* (variant: a drag moves the end point of a locked ROI as well)
mark_roi_drag_Unlocked(event) ==
    /\ roi_end' = IF roi_start # None THEN event ELSE roi_end
    /\ ignored' = (ignored \/ roi_enabled)
    /\ UNCHANGED <<roi_start, roi_enabled, testing, last_frame, result_text,
                   test_result_text, files, cap, cals, afterq, pf_in, pf_out, cam, pending>>

mark_roi_drag(event) ==
    /\ roi_end' = IF ~roi_enabled /\ roi_start # None THEN event ELSE roi_end
    /\ ignored' = (ignored \/ roi_enabled)
    /\ UNCHANGED <<roi_start, roi_enabled, testing, last_frame, result_text,
                   test_result_text, files, cap, cals, afterq, pf_in, pf_out, cam, pending>>

mark_roi_end(event) ==
    /\ IF ~roi_enabled /\ roi_start # None
       THEN /\ roi_end' = event
            /\ roi_enabled' = TRUE
            /\ update_status("ROI selected. Ready to calibrate.", "yellow")
       ELSE UNCHANGED <<roi_end, roi_enabled, result_text>>
    /\ ignored' = (ignored \/ roi_enabled)
    /\ UNCHANGED <<roi_start, testing, last_frame, test_result_text, files, cap,
                   cals, afterq, pf_in, pf_out, cam, pending>>

calibrate_reference ==
    /\ IF last_frame = None \/ get_roi_box = None
       THEN /\ update_status("Status: No frame or ROI", "red")
            /\ UNCHANGED cals
       ELSE /\ Len(cals) < MaxCal
            /\ cals' = Append(cals, [pc |-> "start"])
            /\ UNCHANGED result_text
    /\ UNCHANGED <<roi_start, roi_end, roi_enabled, testing, last_frame,
                   test_result_text, files, cap, afterq, pf_in, pf_out, cam, pending, ignored>>

\* (variant: the reference files are not looked for)
start_testing_NoFileCheck ==
    /\ IF get_roi_box = None
       THEN /\ update_status("No ROI selected", "red")
            /\ UNCHANGED <<testing, test_result_text, pending, ignored>>
       ELSE /\ testing' = TRUE
            /\ pending' = "waiting"
            /\ update_status("Testing...", "yellow")
            /\ update_test_result(NoResult, "white")
    /\ UNCHANGED <<roi_start, roi_end, roi_enabled, last_frame, files, cap, cals,
                   afterq, pf_in, pf_out, cam, ignored>>

start_testing ==
    /\ IF get_roi_box = None
       THEN /\ update_status("No ROI selected", "red")
            /\ UNCHANGED <<testing, test_result_text, pending, ignored>>
       ELSE IF \E i \in 0..(num_ref_images - 1) : ~exists(files[i])
       THEN /\ update_status("Missing reference images", "red")
            /\ UNCHANGED <<testing, test_result_text, pending, ignored>>
       ELSE /\ testing' = TRUE
            /\ pending' = "waiting"
            /\ update_status("Testing...", "yellow")
            /\ update_test_result(NoResult, "white")
    /\ UNCHANGED <<roi_start, roi_end, roi_enabled, last_frame, files, cap, cals,
                   afterq, pf_in, pf_out, cam, ignored>>

\* the Tk main loop runs the oldest callback posted with self.after(0, ...)
run_after ==
    /\ afterq # <<>>
    /\ LET cb == Head(afterq)
       IN  IF cb.fn = "update_status"
           THEN result_text' = cb.label /\ UNCHANGED test_result_text
           ELSE test_result_text' = cb.label /\ UNCHANGED result_text
    /\ afterq' = Tail(afterq)
    /\ UNCHANGED <<roi_start, roi_end, roi_enabled, testing, last_frame, files,
                   cap, cals, pf_in, pf_out, cam, pending, ignored>>

(* ---- capture thread: process_and_display_frame(frame) ---- *)

\* cv2.rectangle(img, (x, y), (x+w, y+h), (0,255,0), 2) on a BGR image: the
\* outline of the box, two pixels thick, in green, clipped to the image
rectangle(img, box) ==
    MkImg(img.h, img.w, img.ch,
          LAMBDA r, c :
              IF /\ box.x - 1 <= c /\ c <= box.x + box.w + 1
                 /\ box.y - 1 <= r /\ r <= box.y + box.h + 1
                 /\ ~(/\ box.x + 1 < c /\ c < box.x + box.w - 1
                      /\ box.y + 1 < r /\ r < box.y + box.h - 1)
              THEN <<0, 255, 0>>
              ELSE img.px[<<r, c>>])

\* lines 221-225: keep a copy of the frame, copy it for display, look for a ROI
on_frame_ready(k) ==
    /\ cap.pc = "idle"
    /\ last_frame' = Frames[k]
    /\ cap' = [pc |-> IF get_roi_box # None THEN "draw" ELSE "show",
               frame |-> Frames[k], display_frame |-> Frames[k]]

\* a frame arrives from the running capture loop
deliver_frame(k) ==
    /\ on_frame_ready(k)
    /\ UNCHANGED <<roi_start, roi_end, roi_enabled, testing, result_text,
                   test_result_text, files, cals, afterq, pf_in, pf_out, cam, pending, ignored>>

\* (variant: no copies are made, the rectangle is drawn on the frame itself)
draw_roi_InPlace ==
    /\ cap.pc = "draw"
    /\ IF get_roi_box = None
       THEN cap' = CapCrashed /\ UNCHANGED last_frame
       ELSE /\ cap' = [cap EXCEPT !.pc = "show",
                                  !.frame = rectangle(@, get_roi_box),
                                  !.display_frame = rectangle(@, get_roi_box)]
            /\ last_frame' = rectangle(last_frame, get_roi_box)
    /\ UNCHANGED <<roi_start, roi_end, roi_enabled, testing, result_text,
                   test_result_text, files, cals, afterq, pf_in, pf_out, cam, pending, ignored>>

\* lines 226-227: x, y, w, h = self.get_roi_box(); rectangle on the display copy
draw_roi ==
    /\ cap.pc = "draw"
    /\ cap' = IF get_roi_box = None THEN CapCrashed
              ELSE [cap EXCEPT !.pc = "show",
                               !.display_frame = rectangle(@, get_roi_box)]
    /\ UNCHANGED <<roi_start, roi_end, roi_enabled, testing, last_frame, result_text,
                   test_result_text, files, cals, afterq, pf_in, pf_out, cam, pending, ignored>>

\* lines 229-237: hand the display copy to the video label, read self.testing
show_frame ==
    /\ cap.pc = "show"
    /\ cap' = IF testing THEN [pc |-> "begin", frame |-> cap.frame] ELSE CapIdle
    /\ pending' = IF testing /\ pending = "waiting" THEN "taken" ELSE pending
    /\ UNCHANGED <<roi_start, roi_end, roi_enabled, testing, last_frame, result_text,
                   test_result_text, files, cals, afterq, pf_in, pf_out, cam, ignored>>

\* lines 239-245: crop and preprocess the live ROI, initialise the loop
test_begin ==
    /\ cap.pc = "begin"
    /\ LET box == get_roi_box
       IN  IF box = None THEN cap' = CapCrashed
           ELSE LET roi_live == Crop(cap.frame, box)
                IN  cap' = With(preprocess_with_clahe(roi_live),
                                LAMBDA live_proc :
                                    IF IsRaised(live_proc) THEN CapCrashed
                                    ELSE [pc |-> "loop", frame |-> cap.frame,
                                          live_proc |-> live_proc, i |-> 0,
                                          max_diff_ratio |-> <<0, 1>>,
                                          change_detected |-> FALSE, reads |-> <<>>])
    /\ UNCHANGED <<roi_start, roi_end, roi_enabled, testing, last_frame, result_text,
                   test_result_text, files, cals, afterq, pf_in, pf_out, cam, pending, ignored>>

\* a calibration thread is inside its capture loop (lines 185-193)
Calibrating ==
    \E t \in 1..Len(cals) : cals[t].pc = "write" /\ cals[t].i < num_ref_images

\* the comparison of one loaded reference (lines 254-258): Raised, or the
\* result of pixel_diff_change
Compare(ref_img, live_proc) ==
    With(preprocess_with_clahe(ref_img),
         LAMBDA ref_proc :
             IF IsRaised(ref_proc) THEN Raised
             ELSE With(align_images(ref_proc, live_proc),
                       LAMBDA aligned_live :
                           IF IsRaised(aligned_live) THEN Raised
                           ELSE pixel_diff_change(ref_proc, aligned_live, threshold,
                                                  change_ratio_threshold)))

\* what one iteration read: the index, imread's result, the calibration
\* pass that wrote the file (0: an earlier session, -1: unreadable), and
\* whether a calibration thread was writing at that moment
Read(c, file, busy) ==
    [i |-> c.i, ref_img |-> imread(file),
     by |-> IF file.kind = "png" THEN file.by ELSE -1, busy |-> busy]

\* (variant: an unreadable reference ends the loop)
Skip_Break(c, read) ==
    [c EXCEPT !.i = c.i + 1, !.reads = Append(c.reads, read), !.pc = "post"]

\* lines 251-252: continue with the next index
Skip(c, read) ==
    [c EXCEPT !.i = c.i + 1, !.reads = Append(c.reads, read),
              !.pc = IF c.i + 1 = num_ref_images THEN "post" ELSE "loop"]

\* (variant: the loop goes on after a change)
Advance_NoBreak(c, read, res) ==
    [c EXCEPT !.i = c.i + 1, !.reads = Append(c.reads, read),
              !.max_diff_ratio = FracMax(c.max_diff_ratio, res.ratio),
              !.change_detected = IF res.changed THEN TRUE ELSE c.change_detected,
              !.pc = IF c.i + 1 = num_ref_images THEN "post" ELSE "loop"]

\* lines 260-263: the running maximum, break on a change
Advance(c, read, res) ==
    [c EXCEPT !.i = c.i + 1, !.reads = Append(c.reads, read),
              !.max_diff_ratio = FracMax(c.max_diff_ratio, res.ratio),
              !.change_detected = IF res.changed THEN TRUE ELSE c.change_detected,
              !.pc = IF res.changed \/ c.i + 1 = num_ref_images THEN "post" ELSE "loop"]

\* lines 248-263, one iteration of the loop over the references
LoopStep(c, file, busy) ==
    IF imread(file) = None
    THEN Skip(c, Read(c, file, busy))
    ELSE With(Compare(imread(file), c.live_proc),
              LAMBDA res : IF IsRaised(res) THEN CapCrashed
                           ELSE Advance(c, Read(c, file, busy), res))

test_step ==
    /\ cap.pc = "loop"
    /\ cap' = LoopStep(cap, files[cap.i], Calibrating)
    /\ UNCHANGED <<roi_start, roi_end, roi_enabled, testing, last_frame, result_text,
                   test_result_text, files, cals, afterq, pf_in, pf_out, cam, pending, ignored>>

\* the label update posted at lines 266-269
Verdict(c) ==
    IF c.change_detected
    THEN Label([verdict |-> "FAIL", diff |-> FormatPct(c.max_diff_ratio)], "red")
    ELSE Label([verdict |-> "PASS", diff |-> FormatPct(c.max_diff_ratio)], "green")

\* (variant: self.testing is left set after the cycle)
test_post_KeepTesting ==
    /\ cap.pc = "post"
    /\ CanPost
    /\ afterq' = Append(afterq, After("update_test_result", Verdict(cap)))
    /\ cap' = CapIdle
    /\ pending' = IF pending = "taken" THEN "none" ELSE pending
    /\ UNCHANGED <<roi_start, roi_end, roi_enabled, testing, last_frame, result_text,
                   test_result_text, files, cals, pf_in, pf_out, cam, ignored>>

\* lines 266-271: post the verdict, clear self.testing
test_post ==
    /\ cap.pc = "post"
    /\ CanPost
    /\ afterq' = Append(afterq, After("update_test_result", Verdict(cap)))
    /\ testing' = FALSE
    /\ cap' = CapIdle
    /\ pending' = IF pending = "taken" THEN "none" ELSE pending
    /\ UNCHANGED <<roi_start, roi_end, roi_enabled, last_frame, result_text,
                   test_result_text, files, cals, pf_in, pf_out, cam, ignored>>

(* ---- calibration threads: _run_calibration_threaded ---- *)

\* lines 178-179: read the ROI once, post the "calibrating" status
cal_start(t) ==
    /\ cals[t].pc = "start"
    /\ IF get_roi_box = None
       THEN /\ cals' = [cals EXCEPT ![t] = [pc |-> "crashed"]]
            /\ UNCHANGED afterq
       ELSE /\ CanPost
            /\ cals' = [cals EXCEPT ![t] = [pc |-> "clear", box |-> get_roi_box, i |-> 0]]
            /\ afterq' = Append(afterq, After("update_status",
                                              Label("Calibrating... please wait", "yellow")))
    /\ UNCHANGED <<roi_start, roi_end, roi_enabled, testing, last_frame, result_text,
                   test_result_text, files, cap, pf_in, pf_out, cam, pending, ignored>>

\* lines 180-182: show the progress bar, post the clearing of the test result
cal_clear(t) ==
    /\ cals[t].pc = "clear"
    /\ CanPost
    /\ cals' = [cals EXCEPT ![t].pc = "write"]
    /\ afterq' = Append(afterq, After("update_test_result", Label(NoResult, "white")))
    /\ UNCHANGED <<roi_start, roi_end, roi_enabled, testing, last_frame, result_text,
                   test_result_text, files, cap, pf_in, pf_out, cam, pending, ignored>>

\* lines 185-193, one capture: cv2.imwrite raises on an empty image
cal_write(t) ==
    /\ cals[t].pc = "write"
    /\ cals[t].i < num_ref_images
    /\ LET roi_img == Crop(last_frame, cals[t].box)
       IN  IF last_frame = None
           THEN /\ cals' = [cals EXCEPT ![t].i = @ + 1]
                /\ UNCHANGED files
           ELSE IF Size(roi_img) = 0
           THEN /\ cals' = [cals EXCEPT ![t] = [pc |-> "crashed"]]
                /\ UNCHANGED files
           ELSE /\ files' = [files EXCEPT ![cals[t].i] = Png(roi_img, t)]
                /\ cals' = [cals EXCEPT ![t].i = @ + 1]
    /\ UNCHANGED <<roi_start, roi_end, roi_enabled, testing, last_frame, result_text,
                   test_result_text, cap, afterq, pf_in, pf_out, cam, pending, ignored>>

\* lines 195-196: post the "complete" status
cal_finish(t) ==
    /\ cals[t].pc = "write"
    /\ cals[t].i = num_ref_images
    /\ CanPost
    /\ cals' = [cals EXCEPT ![t] = [pc |-> "done"]]
    /\ afterq' = Append(afterq, After("update_status", Label("Calibration complete", "green")))
    /\ UNCHANGED <<roi_start, roi_end, roi_enabled, testing, last_frame, result_text,
                   test_result_text, files, cap, pf_in, pf_out, cam, pending, ignored>>

(* ---- camera_handler.py: the capture thread outside the frame callback ---- *)

DelaySteps == 2

\* the SDK calls of initialize_camera, in order (lines 48, 54, 64, 71, 78, 85, 92)
InitCalls ==
    <<"is_InitCamera", "is_SetColorMode", "is_AOI", "is_AllocImageMem",
      "is_SetImageMem", "is_SetDisplayMode", "is_CaptureVideo">>

\* the status text each call leaves when it does not return IS_SUCCESS
FailText ==
    <<"Camera Init Failed", "Set Color Mode Failed", "Set AOI Failed",
      "Alloc Image Mem Failed", "Set Image Mem Failed", "Set Display Mode Failed",
      "Start Capture Video Failed">>

\* the handler after __init__ (lines 16-27): self.hCam is ueye.HIDS(0), which
\* is falsy; is_InitCamera stores the handle of the opened camera in it
CamNew ==
    [pc |-> "init", step |-> 1, i |-> 0, hCam |-> "HIDS(0)", running |-> FALSE,
     failed |-> 0, raised |-> FALSE, result |-> "none", returned |-> None,
     stopped |-> FALSE, releases |-> 0]

\* the handler once initialize_camera has returned True, inside the loop
CamReady ==
    [CamNew EXCEPT !.pc = "loop", !.step = Len(InitCalls) + 1, !.i = DelaySteps,
                   !.hCam = "HIDS(1)", !.running = TRUE, !.result = "True",
                   !.returned = Label("Camera Ready. Please select ROI.", "white")]

\* release_camera (lines 153-160): only with a truthy handle
release_status(c, status) ==
    IF c.hCam = "HIDS(1)" THEN Label("Camera Disconnected.", "gray") ELSE status
release_handle(c) == IF c.hCam = "HIDS(1)" THEN "None" ELSE c.hCam
\* history: how many times lines 156-158 (is_StopLiveVideo, is_FreeImageMem,
\* is_ExitCamera) have run
release_count(c) == IF c.hCam = "HIDS(1)" THEN c.releases + 1 ELSE c.releases

CamUnchanged ==
    UNCHANGED <<roi_start, roi_end, roi_enabled, testing, last_frame,
                test_result_text, files, cap, cals, afterq, pf_in, pf_out, pending, ignored>>

\* an SDK call of initialize_camera returns IS_SUCCESS
cam_step_ok ==
    /\ cam.pc = "init"
    /\ cam' = [cam EXCEPT !.step = @ + 1,
                          !.hCam = IF cam.step = 1 THEN "HIDS(1)" ELSE @,
                          !.pc = IF cam.step = Len(InitCalls) THEN "delay" ELSE "init"]
    /\ UNCHANGED result_text
    /\ CamUnchanged

\* (variant: the return code of the SDK call is not looked at)
cam_step_fail_Ignored ==
    /\ cam.pc = "init"
    /\ cam' = [cam EXCEPT !.step = @ + 1, !.failed = cam.step,
                          !.hCam = IF cam.step = 1 THEN "HIDS(1)" ELSE @,
                          !.pc = IF cam.step = Len(InitCalls) THEN "delay" ELSE "init"]
    /\ UNCHANGED result_text
    /\ CamUnchanged

\* an SDK call returns an error code: the failure status, release_camera
\* (not after is_InitCamera, lines 49-51), return False; start_capture_loop
\* returns (lines 117-118)
cam_step_fail ==
    /\ cam.pc = "init"
    /\ LET msg == Label(FailText[cam.step], "red")
           status == IF cam.step = 1 THEN msg ELSE release_status(cam, msg)
       IN  /\ result_text' = status
           /\ cam' = [cam EXCEPT !.pc = "ended", !.failed = cam.step,
                                 !.result = "False", !.returned = status,
                                 !.hCam = IF cam.step = 1 THEN @ ELSE release_handle(cam),
                                 !.releases = IF cam.step = 1 THEN @
                                              ELSE release_count(cam)]
    /\ CamUnchanged

\* an exception inside the try block (lines 110-113)
cam_step_raise ==
    /\ cam.pc \in {"init", "delay"}
    /\ LET status == release_status(cam, Label("Camera Initialization Error", "red"))
       IN  /\ result_text' = status
           /\ cam' = [cam EXCEPT !.pc = "ended", !.failed = cam.step, !.raised = TRUE,
                                 !.result = "False", !.returned = status,
                                 !.hCam = release_handle(cam),
                                 !.releases = release_count(cam)]
    /\ CamUnchanged

\* lines 99-103: one step of the start-up delay
cam_delay ==
    /\ cam.pc = "delay"
    /\ cam.i < DelaySteps
    /\ cam' = [cam EXCEPT !.i = @ + 1]
    /\ UNCHANGED result_text
    /\ CamUnchanged

\* lines 105-108: the ready status, self.running = True, return True
cam_ready ==
    /\ cam.pc = "delay"
    /\ cam.i = DelaySteps
    /\ result_text' = Label("Camera Ready. Please select ROI.", "white")
    /\ cam' = [cam EXCEPT !.pc = "loop", !.running = TRUE, !.result = "True",
                          !.returned = Label("Camera Ready. Please select ROI.", "white")]
    /\ CamUnchanged

\* line 120 and line 147: the loop condition, release_camera after the loop
cam_loop ==
    /\ cam.pc = "loop"
    /\ IF cam.running
       THEN /\ cam' = [cam EXCEPT !.pc = "inquire"]
            /\ UNCHANGED result_text
       ELSE /\ cam' = [cam EXCEPT !.pc = "released", !.hCam = release_handle(cam),
                                 !.releases = release_count(cam)]
            /\ result_text' = release_status(cam, result_text)
    /\ CamUnchanged

\* lines 122-136: no frame this time (error code, or no data)
cam_no_frame ==
    /\ cam.pc = "inquire"
    /\ cam' = [cam EXCEPT !.pc = "loop"]
    /\ UNCHANGED result_text
    /\ CamUnchanged

\* lines 139-143: a frame is handed to the application
cam_frame(k) ==
    /\ cam.pc = "inquire"
    /\ on_frame_ready(k)
    /\ cam' = [cam EXCEPT !.pc = "callback"]
    /\ UNCHANGED <<roi_start, roi_end, roi_enabled, testing, result_text,
                   test_result_text, files, cals, afterq, pf_in, pf_out, pending, ignored>>

\* line 143: the callback has raised (cap is "crashed"); start_capture_loop
\* has no handler, the exception ends the thread and line 147 is not reached
cam_callback_raise ==
    /\ cam.pc = "callback"
    /\ cap.pc = "crashed"
    /\ cam' = [cam EXCEPT !.pc = "died"]
    /\ UNCHANGED result_text
    /\ CamUnchanged

\* line 145: the callback has returned
cam_sleep ==
    /\ cam.pc = "callback"
    /\ cap.pc = "idle"
    /\ cam' = [cam EXCEPT !.pc = "loop"]
    /\ UNCHANGED result_text
    /\ CamUnchanged

\* app.py lines 273-280: on_closing calls stop_capture_loop (line 151)
on_closing ==
    /\ ~cam.stopped
    /\ cam' = [cam EXCEPT !.running = FALSE, !.stopped = TRUE]
    /\ update_status("Closing...", "yellow")
    /\ CamUnchanged

(* ---- the application as a whole ---- *)

\* The reference folder outlives the process (os.makedirs(..., exist_ok=True)):
\* at start-up it is empty, or holds the set of an earlier session, of which
\* one file may have become unreadable.
EarlierBox == [x |-> 0, y |-> 0, w |-> FrameW, h |-> FrameH - 1]
EarlierSet == [i \in 0..(num_ref_images - 1) |-> Png(Crop(Frames[0], EarlierBox), 0)]
StartFolders ==
    {[i \in 0..(num_ref_images - 1) |-> Absent], EarlierSet}
    \cup {[EarlierSet EXCEPT ![j] = Corrupt] : j \in 0..(num_ref_images - 1)}

\* the attributes set by __init__, once initialize_camera has succeeded
\* (camera_handler.py line 105 sets the status) and before the first frame
Init ==
    /\ roi_start = None
    /\ roi_end = None
    /\ roi_enabled = FALSE
    /\ testing = FALSE
    /\ last_frame = None
    /\ result_text = Label("Camera Ready. Please select ROI.", "white")
    /\ test_result_text = Label(NoResult, "white")
    /\ files \in StartFolders
    /\ cap = CapIdle
    /\ cals = <<>>
    /\ afterq = <<>>
    /\ pf_in = None
    /\ pf_out = None
    /\ cam = CamReady
    /\ pending = "none"
    /\ ignored = FALSE

Next ==
    \/ enable_roi_selection
    \/ reset_app
    \/ \E event \in RoiPoints : mark_roi_start(event)
    \/ \E event \in RoiPoints : mark_roi_drag(event)
    \/ \E event \in RoiPoints : mark_roi_end(event)
    \/ calibrate_reference
    \/ start_testing
    \/ run_after
    \/ \E k \in Scenes : deliver_frame(k)
    \/ draw_roi
    \/ show_frame
    \/ test_begin
    \/ test_step
    \/ test_post
    \/ \E t \in 1..Len(cals) : cal_start(t)
    \/ \E t \in 1..Len(cals) : cal_clear(t)
    \/ \E t \in 1..Len(cals) : cal_write(t)
    \/ \E t \in 1..Len(cals) : cal_finish(t)

Spec == Init /\ [][Next]_vars

-----------------------------------------------------------------------------
(* the test cycle of process_and_display_frame on frames large enough for    *)
(* ratios below change_ratio_threshold                                       *)

WideW == 13
WideH == 4

WideBoxEnds == {Pt(WideW, WideH), Pt(WideW \div 2, WideH)}
WideBoxes == {[x |-> 0, y |-> 0, w |-> e.x, h |-> e.y] : e \in WideBoxEnds}
LiveScenes == {0, 1}
RefScenes == {0, 1, 2}

\* a reference file: unreadable, or cut from some scene with some ROI
RefFiles ==
    {Corrupt} \cup {Png(Crop(SceneImg(WideH, WideW, k), b), 0) : k \in RefScenes, b \in WideBoxes}

\* the state in which line 237 has just read self.testing = True
InitCycle ==
    /\ roi_start = Pt(0, 0)
    /\ roi_end \in WideBoxEnds
    /\ roi_enabled = TRUE
    /\ testing = TRUE
    /\ \E k \in LiveScenes :
         /\ last_frame = SceneImg(WideH, WideW, k)
         /\ cap = [pc |-> "begin", frame |-> SceneImg(WideH, WideW, k)]
    /\ result_text = Label("Testing...", "yellow")
    /\ test_result_text = Label(NoResult, "white")
    /\ files \in [0..(num_ref_images - 1) -> RefFiles]
    /\ cals = <<>>
    /\ afterq = <<>>
    /\ pf_in = None
    /\ pf_out = None
    /\ cam = CamReady
    /\ pending = "taken"
    /\ ignored = FALSE

NextCycle ==
    \/ test_begin
    \/ test_step
    \/ test_post
    \/ run_after

SpecCycle == InitCycle /\ [][NextCycle]_vars

-----------------------------------------------------------------------------
(* pixel_diff_change applied to arbitrary small images *)

MaxH == 2
MaxW == 2

\* an intensity pattern that differs between neighbouring pixels
Base(r, c) == 100 + 10 * ((r + 2 * c) % 3)

\* the pattern image of a size, and the images that differ from the pattern
\* by 26 (upwards or downwards, by position) on a set D of pixels
PatternImg(h, w) == MkImg(h, w, 1, LAMBDA r, c : Base(r, c))
DeltaImg(h, w, D) ==
    MkImg(h, w, 1,
          LAMBDA r, c : IF <<r, c>> \in D
                        THEN Base(r, c) + (IF (r + c) % 2 = 0 THEN 26 ELSE -26)
                        ELSE Base(r, c))

Dims == (0..MaxH) \X (0..MaxW)
Thresholds == {0, threshold, threshold + 1}
RatioThresholds == {<<0, 1>>, change_ratio_threshold, <<1, 2>>}

AppQuiet ==
    /\ roi_start = None /\ roi_end = None /\ roi_enabled = FALSE
    /\ testing = FALSE /\ last_frame = None
    /\ result_text = None /\ test_result_text = None
    /\ files = <<>> /\ cap = CapIdle /\ cals = <<>> /\ afterq = <<>>
    /\ cam = CamReady /\ pending = "none" /\ ignored = FALSE

AppUnchanged ==
    UNCHANGED <<roi_start, roi_end, roi_enabled, testing, last_frame, result_text,
                test_result_text, files, cap, cals, afterq, cam, pending, ignored>>

InitDiff ==
    /\ AppQuiet
    /\ \E rd \in Dims, ld \in Dims :
         \E D \in SUBSET ((0..(ld[1] - 1)) \X (0..(ld[2] - 1))) :
           \E thr \in Thresholds, crt \in RatioThresholds :
             pf_in = [ref |-> PatternImg(rd[1], rd[2]),
                      live |-> DeltaImg(ld[1], ld[2], D),
                      threshold |-> thr,
                      change_ratio_threshold |-> crt]
    /\ pf_out = None

CallDiff ==
    /\ pf_out = None
    /\ "ref" \in DOMAIN pf_in
    /\ pf_out' = pixel_diff_change(pf_in.ref, pf_in.live, pf_in.threshold,
                                   pf_in.change_ratio_threshold)
    /\ UNCHANGED pf_in
    /\ AppUnchanged

NextDiff == CallDiff

SpecDiff == InitDiff /\ [][NextDiff]_vars

-----------------------------------------------------------------------------
(* align_images applied to arbitrary small grayscale arrays *)

\* the images that differ from the pattern on some set of pixels
AlignInputs(h, w) ==
    {DeltaImg(h, w, D) : D \in SUBSET ((0..(h - 1)) \X (0..(w - 1)))}

InitAlign ==
    /\ AppQuiet
    /\ \E td \in Dims, id \in Dims :
         \E image \in AlignInputs(id[1], id[2]) :
           pf_in = [template |-> PatternImg(td[1], td[2]), image |-> image]
    /\ pf_out = None

CallAlign ==
    /\ pf_out = None
    /\ "template" \in DOMAIN pf_in
    /\ pf_out' = align_images(pf_in.template, pf_in.image)
    /\ UNCHANGED pf_in
    /\ AppUnchanged

NextAlign == CallAlign

SpecAlign == InitAlign /\ [][NextAlign]_vars

-----------------------------------------------------------------------------
(* Properties of the test cycle (SpecCycle) *)

InCycle == cap.pc \in {"loop", "post"}
Evaluated == 1..Len(cap.reads)
Loaded(j) == cap.reads[j].ref_img # None
Outcome(j) == Compare(cap.reads[j].ref_img, cap.live_proc)
Triggers(j) == Loaded(j) /\ Outcome(j).changed

\* the outcome of every reference examined so far, None for an unloadable one
Outcomes == [j \in Evaluated |-> IF Loaded(j) THEN Outcome(j) ELSE None]

\* C1: the references are examined in index order; the cycle goes on only
\* while no examined reference reports a change; the first reference that
\* reports a change is the last one examined, the verdict is FAIL and the
\* severity reported is the one computed against that reference.
C1_ShortCircuit ==
    InCycle =>
        With(Outcomes,
             LAMBDA out :
                 LET n == Len(cap.reads)
                     trig == {j \in Evaluated : out[j] # None /\ out[j].changed}
                 IN  /\ \A j \in Evaluated : cap.reads[j].i = j - 1
                     /\ cap.pc = "loop" => trig = {}
                     /\ cap.pc = "post" =>
                          /\ cap.change_detected <=> trig # {}
                          /\ cap.change_detected =>
                               /\ trig = {n}
                               /\ cap.max_diff_ratio = out[n].ratio
                               /\ Verdict(cap) =
                                    Label([verdict |-> "FAIL",
                                           diff |-> FormatPct(out[n].ratio)], "red"))

\* a FAIL before the last index, after a reference with a non-zero severity
C1_Witness ==
    /\ cap.pc = "post" /\ cap.change_detected
    /\ Len(cap.reads) < num_ref_images
    /\ \E j \in 1..(Len(cap.reads) - 1) : Loaded(j) /\ Outcome(j).ratio # <<0, 1>>

\* the largest fraction of a set, 0 for the empty set
MaxOf(S) == IF S = {} THEN <<0, 1>> ELSE CHOOSE m \in S : \A x \in S : ~FracGT(x, m)

\* C2: when no reference reports a change, every index has been examined,
\* the verdict is PASS and the severity reported is the maximum of the
\* severities of the references that were evaluated (0 when none was).
C2_PassReportsMaximum ==
    (cap.pc = "post" /\ ~cap.change_detected) =>
        LET sev == MaxOf({Outcome(j).ratio : j \in {k \in Evaluated : Loaded(k)}})
        IN  /\ Len(cap.reads) = num_ref_images
            /\ \A j \in Evaluated : ~Triggers(j)
            /\ cap.max_diff_ratio = sev
            /\ Verdict(cap) = Label([verdict |-> "PASS", diff |-> FormatPct(sev)], "green")

\* a PASS whose severity is not that of the last reference
C2_Witness ==
    /\ cap.pc = "post" /\ ~cap.change_detected
    /\ cap.max_diff_ratio # <<0, 1>>
    /\ Loaded(num_ref_images) /\ Outcome(num_ref_images).ratio = <<0, 1>>

\* the loadable references of the folder, in index order
LoadableRefs ==
    LET all == [k \in 1..num_ref_images |-> imread(files[k - 1])]
    IN  SelectSeq(all, LAMBDA img : img # None)

RECURSIVE EvalFrom(_, _, _, _)
\* the cycle over a sequence of loaded references from position k on, with
\* the maximum mx so far
EvalFrom(refs, live_proc, k, mx) ==
    IF k > Len(refs) THEN [changed |-> FALSE, ratio |-> mx]
    ELSE LET res == Compare(refs[k], live_proc)
         IN  IF res.changed THEN [changed |-> TRUE, ratio |-> res.ratio]
             ELSE EvalFrom(refs, live_proc, k + 1,
                           IF FracGT(res.ratio, mx) THEN res.ratio ELSE mx)

\* C7: the result of a cycle is the result of the same cycle over the
\* loadable references alone, in the same order; an unloadable reference
\* leaves the running maximum and the change flag as they were.
C7_UnloadableSkipped ==
    /\ cap.pc = "post" =>
         [changed |-> cap.change_detected, ratio |-> cap.max_diff_ratio]
             = EvalFrom(LoadableRefs, cap.live_proc, 1, <<0, 1>>)
    /\ (InCycle /\ Evaluated # {} /\ \A j \in Evaluated : ~Loaded(j)) =>
         (cap.max_diff_ratio = <<0, 1>> /\ ~cap.change_detected)

\* an unloadable reference followed by a reference that reports a change
C7_Witness ==
    /\ cap.pc = "post" /\ cap.change_detected
    /\ \E j \in Evaluated : ~Loaded(j)
    /\ imread(files[0]) = None

-----------------------------------------------------------------------------
(* Properties of pixel_diff_change (SpecDiff) *)

DiffCalled == pf_out # None /\ "ref" \in DOMAIN pf_in

\* the pixels of the top-left h x w corner that differ by more than thr
Exceeding(ref, live, h, w, thr) ==
    {p \in (0..(h - 1)) \X (0..(w - 1)) : Abs(ref.px[p] - live.px[p]) >= thr + 1}

\* C3: for equal non-zero sizes the severity is the number of pixels whose
\* absolute difference exceeds the threshold over the number of pixels, and
\* changed says that the severity exceeds the ratio threshold, strictly.
C3_DiffRatio ==
    (DiffCalled /\ Shape(pf_in.ref) = Shape(pf_in.live) /\ Size(pf_in.ref) > 0) =>
        LET n == Cardinality(Exceeding(pf_in.ref, pf_in.live, pf_in.ref.h, pf_in.ref.w,
                                       pf_in.threshold))
            total == pf_in.ref.h * pf_in.ref.w
            crt == pf_in.change_ratio_threshold
        IN  /\ pf_out.ratio[2] > 0
            /\ pf_out.ratio[1] * total = n * pf_out.ratio[2]
            /\ pf_out.changed = (n * crt[2] > crt[1] * total)

\* a severity equal to the ratio threshold, which is not a change
C3_Witness ==
    /\ DiffCalled /\ Shape(pf_in.ref) = Shape(pf_in.live) /\ Size(pf_in.ref) > 0
    /\ pf_out.ratio = pf_in.change_ratio_threshold
    /\ pf_out.ratio # <<0, 1>>
    /\ ~pf_out.changed

\* C8: for different sizes the result is the one computed on the top-left
\* corners of both images, of the common minimum height and width, and
\* (FALSE, 0) when that corner is empty.
C8_DimMismatch ==
    (DiffCalled /\ Shape(pf_in.ref) # Shape(pf_in.live)) =>
        LET mh == Min(pf_in.ref.h, pf_in.live.h)
            mw == Min(pf_in.ref.w, pf_in.live.w)
            n == Cardinality(Exceeding(pf_in.ref, pf_in.live, mh, mw, pf_in.threshold))
            crt == pf_in.change_ratio_threshold
        IN  /\ ~IsRaised(pf_out)
            /\ IF mh = 0 \/ mw = 0
               THEN pf_out = [changed |-> FALSE, ratio |-> <<0, 1>>]
               ELSE /\ pf_out.ratio = Frac(n, mh * mw)
                    /\ pf_out.changed = (n * crt[2] > crt[1] * mh * mw)

\* a taller and narrower reference, a change found on the common corner
C8_Witness ==
    /\ DiffCalled
    /\ pf_in.ref.h > pf_in.live.h /\ pf_in.ref.w < pf_in.live.w
    /\ pf_out.changed

\* C16: for the same two images, a higher pixel threshold never gives a
\* higher severity, and a higher ratio threshold never turns a result that
\* is not a change into a change.
C16_Monotone ==
    DiffCalled =>
        /\ \A thr2 \in Thresholds :
             thr2 >= pf_in.threshold =>
                 ~FracGT(pixel_diff_change(pf_in.ref, pf_in.live, thr2,
                                           pf_in.change_ratio_threshold).ratio,
                         pf_out.ratio)
        /\ \A crt2 \in RatioThresholds :
             (~FracGT(pf_in.change_ratio_threshold, crt2) /\ ~pf_out.changed) =>
                 ~pixel_diff_change(pf_in.ref, pf_in.live, pf_in.threshold, crt2).changed

\* a higher pixel threshold lowers the severity, and a higher ratio
\* threshold turns the change into no change
C16_Witness ==
    /\ DiffCalled
    /\ pf_out.changed
    /\ \E thr2 \in Thresholds :
         /\ thr2 > pf_in.threshold
         /\ FracGT(pf_out.ratio,
                   pixel_diff_change(pf_in.ref, pf_in.live, thr2,
                                     pf_in.change_ratio_threshold).ratio)
    /\ \E crt2 \in RatioThresholds :
         /\ FracGT(crt2, pf_in.change_ratio_threshold)
         /\ ~pixel_diff_change(pf_in.ref, pf_in.live, pf_in.threshold, crt2).changed

\* C17: two equal non-empty images give (FALSE, 0), whatever the thresholds.
C17_IdenticalNoChange ==
    (DiffCalled /\ pf_in.ref = pf_in.live /\ Size(pf_in.ref) > 0) =>
        pf_out = [changed |-> FALSE, ratio |-> <<0, 1>>]

\* equal images of the largest size, both thresholds 0
C17_Witness ==
    /\ DiffCalled /\ pf_in.ref = pf_in.live
    /\ pf_in.ref.h = MaxH /\ pf_in.ref.w = MaxW
    /\ pf_in.threshold = 0 /\ pf_in.change_ratio_threshold = <<0, 1>>
    /\ pf_out = [changed |-> FALSE, ratio |-> <<0, 1>>]

-----------------------------------------------------------------------------
(* Properties of align_images (SpecAlign) *)

\* C6: when both arrays are non-empty and the template is larger than the
\* image in width or in height, align_images returns the top-left corner of
\* the image of the template's size, clipped to the image.
C6_AlignFallback ==
    (/\ pf_out # None /\ "template" \in DOMAIN pf_in
     /\ Size(pf_in.template) > 0 /\ Size(pf_in.image) > 0
     /\ (pf_in.template.h > pf_in.image.h \/ pf_in.template.w > pf_in.image.w)) =>
        pf_out = Slice(pf_in.image, 0, pf_in.template.h, 0, pf_in.template.w)

AlignCalled == pf_out # None /\ "template" \in DOMAIN pf_in

\* C14: when the image is at least as large as the template in both axes,
\* the result is the region of the image, of the template's shape, at the
\* offset whose correlation score is the maximum, the first such offset in
\* row-major order; VisionProcessor.align_images returns the same region.
C14_BestOffset ==
    (/\ AlignCalled /\ Size(pf_in.template) > 0
     /\ pf_in.image.h >= pf_in.template.h /\ pf_in.image.w >= pf_in.template.w) =>
        LET T == pf_in.template
            I == pf_in.image
            Offsets == (0..(I.h - T.h)) \X (0..(I.w - T.w))
            Before(p, q) == p[1] < q[1] \/ (p[1] = q[1] /\ p[2] < q[2])
        IN  /\ Shape(pf_out) = Shape(T)
            /\ \E o \in Offsets :
                 /\ pf_out = Slice(I, o[1], o[1] + T.h, o[2], o[2] + T.w)
                 /\ \A p \in Offsets :
                      ~ScoreGT(Score(I, T, p[1], p[2]), Score(I, T, o[1], o[2]))
                 /\ \A p \in Offsets :
                      Before(p, o) => ScoreGT(Score(I, T, o[1], o[2]), Score(I, T, p[1], p[2]))
            /\ vp_align_images(T, I) = pf_out

\* the best match is not at the top-left corner
C14_Witness ==
    /\ AlignCalled /\ Size(pf_in.template) > 0
    /\ pf_in.image.h >= pf_in.template.h /\ pf_in.image.w >= pf_in.template.w
    /\ ~IsRaised(pf_out)
    /\ pf_out # Slice(pf_in.image, 0, pf_in.template.h, 0, pf_in.template.w)

\* C15: a non-empty image equal to the template is returned whole.
C15_AlignIdentity ==
    (AlignCalled /\ pf_in.image = pf_in.template /\ Size(pf_in.template) > 0) =>
        pf_out = pf_in.template

\* the identity on the largest template
C15_Witness ==
    /\ AlignCalled /\ pf_in.image = pf_in.template
    /\ pf_in.template.h = MaxH /\ pf_in.template.w = MaxW
    /\ pf_out = pf_in.template

-----------------------------------------------------------------------------
(* Properties of the application (Spec) *)

\* C4: when the test cycle is entered, a ROI is selected.
C4_CycleHasRoi == cap.pc = "begin" => get_roi_box # None

\* C5: while a test cycle reads the references no calibration thread is
\* writing them, and the references it has read were all written by one
\* calibration pass, which is complete.
C5_ReferenceSetStable ==
    InCycle =>
        /\ ~Calibrating
        /\ \A j \in Evaluated : ~cap.reads[j].busy
        /\ \A j, k \in Evaluated :
             (Loaded(j) /\ Loaded(k)) => cap.reads[j].by = cap.reads[k].by
        /\ \A j \in Evaluated :
             (Loaded(j) /\ cap.reads[j].by > 0) => cals[cap.reads[j].by].pc = "done"

RegionOk(box) ==
    /\ box.w > 0 /\ box.h > 0
    /\ box.x >= 0 /\ box.y >= 0
    /\ box.x + box.w <= FrameW /\ box.y + box.h <= FrameH

\* C9: a region that calibrate_reference or start_testing accepts has a
\* positive width and height and lies inside the frame.
C9_AcceptedRegionValid ==
    /\ \A t \in 1..Len(cals) : "box" \in DOMAIN cals[t] => RegionOk(cals[t].box)
    /\ (testing /\ get_roi_box # None) => RegionOk(get_roi_box)

FilesComplete == \A i \in 0..(num_ref_images - 1) : exists(files[i])

\* C10: the testing flag is set only when a ROI is selected and every
\* reference file exists; start_testing without a ROI or with a file
\* missing leaves the flag as it was and sets a red status.
C10_StartTestingGuard ==
    [][/\ (testing' /\ ~testing) => (get_roi_box # None /\ FilesComplete)
       /\ (start_testing /\ (get_roi_box = None \/ ~FilesComplete)) =>
             (testing' = testing /\ result_text'.color = "red")]_vars

\* Start Test refused with a ROI selected and only some of the files present
C10_Witness ==
    /\ result_text = Label("Missing reference images", "red")
    /\ ~testing
    /\ get_roi_box # None
    /\ \E i, j \in 0..(num_ref_images - 1) : exists(files[i]) /\ ~exists(files[j])

\* a PASS or FAIL label, as posted at lines 267 and 269
IsVerdict(label) == label.color \in {"red", "green"} /\ label.text # NoResult

Pristine(img) == \E k \in Scenes : img = Frames[k]

\* the ROI cut from a delivered frame, for some selection of the user
PristineCrop(img) ==
    \E k \in Scenes, a \in RoiPoints, b \in RoiPoints :
        img = Crop(Frames[k], [x |-> Min(a.x, b.x), y |-> Min(a.y, b.y),
                               w |-> Abs(b.x - a.x), h |-> Abs(b.y - a.y)])

\* C18: the frame the test cycle crops, and last_frame, from which the
\* calibration threads cut the references, are always frames as delivered:
\* the rectangle is only ever on the display copy, and every reference
\* written by a calibration thread is the ROI cut from a delivered frame.
C18_FramesNotMutated ==
    /\ last_frame # None => Pristine(last_frame)
    /\ "frame" \in DOMAIN cap => Pristine(cap.frame)
    /\ \A i \in 0..(num_ref_images - 1) :
         (files[i].kind = "png" /\ files[i].by > 0) =>
             PristineCrop(files[i].img)

\* the rectangle is on the display copy of a frame that is about to be
\* evaluated, and a calibration thread has written a reference
C18_Witness ==
    /\ cap.pc = "show"
    /\ cap.display_frame # cap.frame
    /\ testing
    /\ \E i \in 0..(num_ref_images - 1) : files[i].kind = "png" /\ files[i].by > 0

\* C20: an accepted Start Test request that no cycle has taken up keeps the
\* testing flag set, so that the next frame is evaluated for it.
C20_RequestKept == pending = "waiting" => testing

\* C21: from reset_app until the next accepted start_testing (pending is
\* "reset" exactly then) the testing flag is false and the test-result label
\* is empty: no verdict of a cycle begun before the reset reaches the label.
C21_ResetIsFinal ==
    pending = "reset" => (~testing /\ test_result_text = Label(NoResult, "white"))

\* C22: while the ROI is locked (roi_enabled), a step either leaves roi_start,
\* roi_end and roi_enabled as they are, or it is enable_roi_selection or
\* reset_app and clears all three; mouse press, drag and release change nothing.
C22_FinalisedRoiLocked ==
    [][roi_enabled =>
         \/ UNCHANGED <<roi_start, roi_end, roi_enabled>>
         \/ /\ enable_roi_selection \/ reset_app
            /\ roi_start' = None /\ roi_end' = None /\ ~roi_enabled'
      ]_vars

\* a mouse event has arrived on a locked ROI of non-zero size, which is still there
C22_Witness ==
    /\ roi_enabled /\ ignored
    /\ get_roi_box # None /\ roi_start # roi_end

-----------------------------------------------------------------------------
(* the capture thread from its start: start_capture_loop, with the window    *)
(* being closed and Select ROI being pressed at any moment                   *)

InitCamera ==
    /\ \/ roi_start = None /\ roi_end = None /\ roi_enabled = FALSE
       \/ roi_start = Pt(0, 0) /\ roi_end = Pt(FrameW \div 2, FrameH) /\ roi_enabled = TRUE
    /\ testing = FALSE
    /\ last_frame = None
    /\ result_text = Label("Status: Initializing camera...", "white")
    /\ test_result_text = Label(NoResult, "white")
    /\ files = [i \in 0..(num_ref_images - 1) |-> Absent]
    /\ cap = CapIdle
    /\ cals = <<>>
    /\ afterq = <<>>
    /\ pf_in = None
    /\ pf_out = None
    /\ cam = CamNew
    /\ pending = "none"
    /\ ignored = FALSE

CamThread ==
    \/ cam_step_ok
    \/ cam_step_fail
    \/ cam_delay
    \/ cam_ready
    \/ cam_loop
    \/ cam_no_frame
    \/ \E k \in Scenes : cam_frame(k)
    \/ draw_roi
    \/ show_frame
    \/ cam_callback_raise
    \/ cam_sleep

NextCamera ==
    \/ CamThread
    \/ cam_step_raise
    \/ on_closing
    \/ enable_roi_selection

SpecCamera == InitCamera /\ [][NextCamera]_vars

\* the capture thread keeps running as long as it has a step to take
SpecCameraLive == SpecCamera /\ WF_vars(CamThread)

(* Properties of the capture thread (SpecCamera, SpecCameraLive) *)

\* C12: a frame reaches the application only after initialize_camera has
\* returned True, with every one of the seven SDK calls successful; once it
\* has returned False the capture thread has ended and no frame is delivered.
C12_FramesOnlyAfterInit ==
    /\ (last_frame # None \/ cap.pc # "idle" \/ cam.pc \in {"inquire", "callback"}) =>
         (cam.result = "True" /\ cam.failed = 0 /\ cam.step = Len(InitCalls) + 1)
    /\ cam.result = "False" =>
         (cam.pc = "ended" /\ last_frame = None /\ cap.pc = "idle" /\ ~cam.running)

\* a frame inside the callback after a successful initialisation
C12_Witness ==
    /\ cam.result = "True"
    /\ cam.pc = "callback"
    /\ last_frame # None

\* C13: when initialize_camera has returned False, the status at that moment
\* is the failure message of the step that failed, in red.
C13_FailureStatusKept ==
    cam.result = "False" =>
        cam.returned = Label(IF cam.raised THEN "Camera Initialization Error"
                             ELSE FailText[cam.failed], "red")

\* C19: once stop_capture_loop has been called, the capture thread
\* eventually ends: it leaves its loop and releases the camera, or has
\* returned from a failed initialisation.
C19_StopEndsCapture == cam.stopped ~> (cam.pc \in {"released", "ended"})

\* C23: when the capture thread has ended after is_InitCamera succeeded
\* (initialize_camera failed or raised, or the capture loop was left), the
\* release sequence of release_camera has run, exactly once, and the handle
\* is cleared; the sequence never runs twice.
C23_ReleasedOnExit ==
    /\ (cam.pc \in {"ended", "released", "died"} /\ cam.step > 1) =>
         (cam.releases = 1 /\ cam.hCam = "None")
    /\ cam.releases <= 1

=============================================================================
